---- MODULE Spec2Model ----
(***************************************************************************)
(* Model of the Datadog sidecar (sidecar/main.go): main's stream loop,     *)
(* tailFile's polling loop over a log file that a writer appends to,       *)
(* truncates and rotates, and processLogLine with its metric writes and    *)
(* its detached trace task.                                                *)
(*                                                                         *)
(* Strings are sequences of runs [ch, n, id, pos]: the character ch        *)
(* repeated n times.  The program reads ch and n only; id and pos are      *)
(* provenance (which written line, which byte of it) that the properties   *)
(* use.  A file holds runs of length one, its bytes.                       *)
(***************************************************************************)
EXTENDS Integers, Sequences, FiniteSets, Bags, TLC

\* ------------------------------------------------------------ bounds
\* Lines the writer starts on the log path.
MaxLines == 2
\* Disturbances of one run: truncations and rotations of the log file, failed
\* system calls, failed sends, faults in trace tasks.
MaxEvents == 1
\* Lines the stream-mode input delivers.
MaxInput == 2

\* ------------------------------------------------------------ strings
R(c, k) == [ch |-> c, n |-> k, id |-> 0, pos |-> 0]

RECURSIVE StrLen(_)
StrLen(s) == IF s = <<>> THEN 0 ELSE s[1].n + StrLen(Tail(s))

IsSpace(c) == c \in {" ", "\n", "\t", "\r"}

RECURSIVE TrimLeft(_)
TrimLeft(s) ==
    IF s # <<>> /\ IsSpace(s[1].ch) THEN TrimLeft(Tail(s)) ELSE s

RECURSIVE TrimRight(_)
TrimRight(s) ==
    IF s # <<>> /\ IsSpace(s[Len(s)].ch)
    THEN TrimRight(SubSeq(s, 1, Len(s) - 1))
    ELSE s

\* strings.TrimSpace
TrimSpace(s) == TrimRight(TrimLeft(s))

\* s[:k] for k <= len(s)
RECURSIVE Take(_, _)
Take(s, k) ==
    IF k = 0 \/ s = <<>> THEN <<>>
    ELSE IF s[1].n <= k THEN <<s[1]>> \o Take(Tail(s), k - s[1].n)
    ELSE <<[s[1] EXCEPT !.n = k]>>

\* The bytes of a diagnostic that truncate keeps.
TruncateMax == 80

truncate_AlwaysEllipsis(s, max) == Take(s, max) \o <<R(".", 3)>>

truncate(s, max) ==
    IF StrLen(s) <= max THEN s ELSE Take(s, max) \o <<R(".", 3)>>

\* A string given byte by byte.
Chars(q) == [i \in DOMAIN q |-> R(q[i], 1)]

\* strings.ReplaceAll(s, old, new), old and new one byte each
ReplaceAll(s, old, new) ==
    [i \in DOMAIN s |-> IF s[i].ch = old THEN [s[i] EXCEPT !.ch = new] ELSE s[i]]

\* Position of the first occurrence of old in s from i on, 0 when there is none.
RECURSIVE Index(_, _, _)
Index(s, old, i) ==
    IF i + Len(old) - 1 > Len(s) THEN 0
    ELSE IF SubSeq(s, i, i + Len(old) - 1) = old THEN i
    ELSE Index(s, old, i + 1)

\* strings.Replace(s, old, new, 1)
Replace(s, old, new) ==
    LET at == Index(s, old, 1) IN
    IF at = 0 THEN s
    ELSE SubSeq(s, 1, at - 1) \o new \o SubSeq(s, at + Len(old), Len(s))

\* strings.Join(list, sep)
RECURSIVE Join(_, _)
Join(list, sep) ==
    IF list = <<>> THEN <<>>
    ELSE IF Len(list) = 1 THEN list[1]
    ELSE list[1] \o sep \o Join(Tail(list), sep)

\* Position of the first newline of s, 0 when it has none.
RECURSIVE IndexNL(_, _)
IndexNL(s, i) ==
    IF i > Len(s) THEN 0
    ELSE IF s[i].ch = "\n" THEN i
    ELSE IndexNL(s, i + 1)

\* ------------------------------------------------------------ state
VARIABLES
    mode,         \* "stream" (LOG_FILE is "-") or "tail"
    pc,           \* the main thread's position
    inodes,       \* the contents of every file created at the log path
    path,         \* the inode the log path names, 0 when it names none
    pending,      \* the bytes of the writer's current line not yet appended
    nWritten,     \* lines the writer has started
    events,       \* disturbances so far
    files,        \* every *os.File tailFile obtained: [ino, off, closed, cut]
    file,         \* tailFile's file variable: an index of files, 0 for nil
    reader,       \* tailFile's reader: [f: the file it wraps, buf: read ahead]
    lastSize,     \* tailFile's lastSize
    partialLine,  \* tailFile's partialLine
    startFd,      \* the file startup ended with, 0 before
    openMark,     \* bytes written to the path before startup's last open
    seekMark,     \* bytes written to the path before startup's seek
    truncated,    \* the log file was truncated at some time
    nScanned,     \* lines the stdin scanner has delivered
    handed,       \* the lines handed to json.Unmarshal: [fd, line]
    processed,    \* the records processLogLine was called with
    metrics,      \* per processed record, its datagram writes: [name, typ, status, ok]
    logs,         \* the log entries written after the start banner
    once,         \* onceLogProcessed has fired
    tasks,        \* trace goroutines started and not finished (a bag)
    spans,        \* spans finished (a bag)
    cfg,          \* main's cfg, read from the environment
    agent,        \* the agent address the tracer was started with, <<>> before
    wire          \* what processLogLine did, in order: "log", "write", "go"

vars == <<mode, pc, inodes, path, pending, nWritten, events,
          files, file, reader, lastSize, partialLine, startFd, openMark,
          seekMark, truncated, nScanned, handed, processed, metrics, logs, once, tasks, spans,
          cfg, agent, wire>>

fsVars == <<inodes, path, pending, nWritten, truncated>>
rdVars == <<files, file, reader, lastSize, partialLine, startFd, openMark, seekMark>>
outVars == <<handed, processed, metrics, logs, once, tasks, spans, wire>>

\* ------------------------------------------------------------ the log writer
\* What the writer puts on the path: the line "{}".
TailDocs == { <<"{", "}", "\n">> }

DocLen == Len(CHOOSE d \in TailDocs : TRUE)

Bytes(doc, k) ==
    [i \in 1..Len(doc) |-> [ch |-> doc[i], n |-> 1, id |-> k, pos |-> i]]

\* Bytes appended to the path so far.
BytesWritten == nWritten * DocLen - Len(pending)

Running == pc \notin {"done", "fatalStart", "fatalRead", "fatalTooLong"}

\* The path does not exist yet, or was renamed away: the writer creates it.
WriterCreate ==
    /\ mode = "tail" /\ Running
    /\ path = 0
    /\ inodes' = Append(inodes, <<>>)
    /\ path' = Len(inodes) + 1
    /\ UNCHANGED <<mode, cfg, agent, pc, pending, nWritten, truncated, events, rdVars, nScanned, outVars>>

\* Rotation, first half: the file is renamed away; descriptors keep the inode.
WriterRename ==
    /\ mode = "tail" /\ Running
    /\ path # 0
    /\ events < MaxEvents
    /\ events' = events + 1
    /\ path' = 0
    /\ UNCHANGED <<mode, cfg, agent, pc, inodes, pending, nWritten, truncated, rdVars, nScanned, outVars>>

\* The writer appends (O_APPEND) a whole line, the first fragment of one, or
\* the rest of the line it began.
WriterAppend ==
    /\ mode = "tail" /\ Running
    /\ path # 0
    /\ \/ /\ pending = <<>>
          /\ nWritten < MaxLines
          /\ \E doc \in TailDocs, k \in 1..DocLen :
                LET b == Bytes(doc, nWritten + 1) IN
                /\ inodes' = [inodes EXCEPT ![path] = @ \o SubSeq(b, 1, k)]
                /\ pending' = SubSeq(b, k + 1, Len(b))
          /\ nWritten' = nWritten + 1
       \/ /\ pending # <<>>
          /\ inodes' = [inodes EXCEPT ![path] = @ \o pending]
          /\ pending' = <<>>
          /\ UNCHANGED nWritten
    /\ UNCHANGED <<mode, cfg, agent, pc, path, truncated, events, rdVars, nScanned, outVars>>

\* The file is truncated to a smaller size k, to nothing or to its first line;
\* every descriptor on it is marked.
WriterTruncate ==
    /\ mode = "tail" /\ Running
    /\ path # 0
    /\ events < MaxEvents
    /\ events' = events + 1
    /\ \E k \in {j \in {0, DocLen} : j < Len(inodes[path])} :
          inodes' = [inodes EXCEPT ![path] = SubSeq(@, 1, k)]
    /\ files' = [i \in DOMAIN files |->
                    IF files[i].ino = path THEN [files[i] EXCEPT !.cut = TRUE]
                    ELSE files[i]]
    /\ truncated' = TRUE
    /\ UNCHANGED <<mode, cfg, agent, pc, path, pending, nWritten, file, reader, lastSize,
                   partialLine, startFd, openMark, seekMark, nScanned, outVars>>

\* ------------------------------------------------------------ tailFile
\* An *os.File: the inode it is open on, its offset, whether it was closed, and
\* whether its file was truncated since it was positioned.
OpenFile(ino) == [ino |-> ino, off |-> 0, closed |-> FALSE, cut |-> FALSE]

ClosedFile == [ino |-> 0, off |-> 0, closed |-> TRUE, cut |-> FALSE]

Close_Nothing(fs, f) == fs

\* (*os.File).Close: on nil it returns an error and does nothing.
Close(fs, f) == IF f = 0 THEN fs ELSE [fs EXCEPT ![f] = ClosedFile]

Content(f) == inodes[files[f].ino]

\* A system call on tailFile's file fails by itself when the file is nil or closed.
Invalid(f) == f = 0 \/ files[f].closed

\* ------------------------------------------------------------ configuration
\* host:port; the host is one run, the port is given digit by digit.
Address(host, port) == <<R(host, 1), R(":", 1)>> \o Chars(port)

\* cfg.ApdexThreshold, in tenths of a second.
ApdexThreshold == 5

\* The configuration when no environment variable is set.
DefaultConfig ==
    [DogStatsDAddress |-> Address("datadog-apm.datadog.svc", <<"8", "1", "2", "7">>),
     ServiceName |-> <<R("traefik-cfs-staging-echo", 1)>>,
     Environment |-> <<R("staging", 1)>>,
     Version |-> <<R("3.6.7", 1)>>,
     ApdexThreshold |-> ApdexThreshold]

\* agentAddr := strings.Replace(cfg.DogStatsDAddress, ":8127", ":8126", 1)
AgentAddr(address) ==
    Replace(address, Chars(<<":", "8", "1", "2", "7">>), Chars(<<":", "8", "1", "2", "6">>))

\* ------------------------------------------------------------ decoding
\* type AccessLog, the fields the program reads; a string is a run sequence.
ZeroLog ==
    [Duration |-> 0, RequestHost |-> <<>>, RequestAddr |-> <<>>,
     RequestMethod |-> <<>>, RequestPath |-> <<>>,
     DownstreamStatus |-> 0, OriginStatus |-> 0]

\* A JSON member is one character of the model: the field it sets and the value.
FieldTokens ==
    [c \in {"D200", "D404", "O502"} |->
        CASE c = "D200" -> [f |-> "DownstreamStatus", v |-> 200]
          [] c = "D404" -> [f |-> "DownstreamStatus", v |-> 404]
          [] c = "O502" -> [f |-> "OriginStatus", v |-> 502]]

\* The text is one JSON object: "{", members, "}".
JsonObject(t) ==
    /\ Len(t) >= 2
    /\ t[1].ch = "{" /\ t[1].n = 1
    /\ t[Len(t)].ch = "}" /\ t[Len(t)].n = 1
    /\ \A i \in 2..(Len(t) - 1) : t[i].ch \in DOMAIN FieldTokens /\ t[i].n = 1

RECURSIVE SetMembers(_, _, _)
SetMembers(rec, t, i) ==
    IF i >= Len(t) THEN rec
    ELSE SetMembers([rec EXCEPT ![FieldTokens[t[i].ch].f] = FieldTokens[t[i].ch].v],
                    t, i + 1)

\* json.Unmarshal([]byte(line), &accessLog)
Unmarshal(t) ==
    IF JsonObject(t) THEN [ok |-> TRUE, rec |-> SetMembers(ZeroLog, t, 2)]
    ELSE [ok |-> FALSE, rec |-> ZeroLog]

\* ------------------------------------------------------------ processLogLine
Digit(d) == CASE d = 0 -> "0" [] d = 1 -> "1" [] d = 2 -> "2" [] d = 3 -> "3"
              [] d = 4 -> "4" [] d = 5 -> "5" [] d = 6 -> "6" [] d = 7 -> "7"
              [] d = 8 -> "8" [] d = 9 -> "9"

RECURSIVE Digits(_)
Digits(k) ==
    IF k < 10 THEN <<R(Digit(k), 1)>>
    ELSE Digits(k \div 10) \o <<R(Digit(k % 10), 1)>>

\* strconv.Itoa
Itoa(k) == IF k < 0 THEN <<R("-", 1)>> \o Digits(0 - k) ELSE Digits(k)

\* statusCode: DownstreamStatus, or OriginStatus when that is zero.
StatusCode(rec) ==
    IF rec.DownstreamStatus = 0 THEN rec.OriginStatus ELSE rec.DownstreamStatus

IsError_Above400(statusCode) == statusCode > 400

IsError(statusCode) == statusCode >= 400

Hostname_NoAddr(rec) ==
    IF rec.RequestHost # <<>> THEN rec.RequestHost ELSE <<R("unknown", 1)>>

\* The hostname of a record.
Hostname(rec) ==
    IF rec.RequestHost # <<>> THEN rec.RequestHost
    ELSE IF rec.RequestAddr # <<>> THEN rec.RequestAddr
    ELSE <<R("unknown", 1)>>

\* Nanoseconds in a millisecond.
MsUnit == 1000000

\* durationMs, kept as the exact quotient Duration / 1e6: the number of
\* millionths of a millisecond.
DurationMs(rec) == rec.Duration

Apdex_Exclusive(durationMs, threshold) ==
    IF durationMs < threshold * 100 * MsUnit THEN 100
    ELSE IF durationMs < threshold * 400 * MsUnit THEN 50
    ELSE 0

\* apdex, in hundredths; the thresholds are cfg.ApdexThreshold*1000 and
\* cfg.ApdexThreshold*4000 milliseconds.
Apdex(durationMs, threshold) ==
    IF durationMs <= threshold * 100 * MsUnit THEN 100
    ELSE IF durationMs <= threshold * 400 * MsUnit THEN 50
    ELSE 0

\* "%.2f" of a number given by its sign and its magnitude in hundredths.
Fixed2(neg, h) ==
    (IF neg THEN <<R("-", 1)>> ELSE <<>>)
    \o Digits(h \div 100)
    \o <<R(".", 1), R(Digit((h \div 10) % 10), 1), R(Digit(h % 10), 1)>>

\* "%.2f" of durationMs: rounded to hundredths of a millisecond.
FormatDuration(durationMs) ==
    LET mag == IF durationMs < 0 THEN 0 - durationMs ELSE durationMs IN
    Fixed2(durationMs < 0, (mag + 5000) \div 10000)

sanitizeTagValue_KeepsPipe(s) ==
    ReplaceAll(ReplaceAll(s, ",", "_"), "\n", "_")

sanitizeTagValue(s) ==
    ReplaceAll(ReplaceAll(ReplaceAll(s, ",", "_"), "|", "_"), "\n", "_")

\* The tag names, each with its colon, in the order of the tags slice.
TagKeys ==
    <<"peer.hostname:", "http.status_code:", "resource_name:", "http.method:",
      "service:", "env:", "version:">>

\* processLogLine's tags.
Tags(rec, c) ==
    LET hostname == Hostname(rec)
        vals == <<sanitizeTagValue(hostname),
                  Itoa(StatusCode(rec)),
                  sanitizeTagValue(hostname),
                  sanitizeTagValue(rec.RequestMethod),
                  sanitizeTagValue(c.ServiceName),
                  sanitizeTagValue(c.Environment),
                  sanitizeTagValue(c.Version)>>
    IN [k \in 1..7 |-> <<R(TagKeys[k], 1)>> \o vals[k]]

Metric(name, value, typ, status) ==
    [name |-> name, value |-> value, typ |-> typ, status |-> status]

\* sendMetrics' list: value is the number the metric carries (apdex in
\* hundredths), status is the trailing status tag, <<>> when there is none.
MetricList(statusCode, durationMs, isError, apdex) ==
    LET one == 1 IN
    <<Metric("trace.traefik.request.hits", one, "c", <<>>),
      Metric("trace.traefik.request.hits.by_http_status", one, "c", statusCode),
      Metric("trace.traefik.request.duration", durationMs, "h", <<>>),
      Metric("trace.traefik.request.duration.by_http_status", durationMs, "h", statusCode),
      Metric("trace.traefik.request.apdex", apdex, "g", <<>>)>>
    \o (IF isError
        THEN <<Metric("trace.traefik.request.errors", one, "c", <<>>),
               Metric("trace.traefik.request.errors.by_http_status", one, "c", statusCode)>>
        ELSE <<>>)

\* The value as the format string of metric m prints it: the literal 1 of the
\* counters, "%.2f" of durationMs, "%.2f" of apdex.
MetricValue(m) ==
    IF m.typ = "c" THEN <<R("1", 1)>>
    ELSE IF m.typ = "h" THEN FormatDuration(m.value)
    ELSE Fixed2(FALSE, m.value)

\* The datagram of metric m with the tags tg, without its final newline.
MetricLine(m, tg) ==
    <<R(m.name, 1), R(":", 1)>> \o MetricValue(m)
    \o <<R("|", 1), R(m.typ, 1), R("|", 1), R("#", 1)>>
    \o Join(tg, <<R(",", 1)>>)
    \o (IF m.status = <<>> THEN <<>> ELSE <<R(",", 1), R("status:", 1)>> \o m.status)

SendMetrics_StopAtFailure(list, failed) ==
    LET upto == IF failed = {} THEN Len(list)
                ELSE CHOOSE j \in failed : \A k \in failed : j <= k
    IN [batch |-> [i \in 1..upto |->
                      [name |-> list[i].name, value |-> list[i].value,
                       typ |-> list[i].typ, status |-> list[i].status,
                       ok |-> i \notin failed]],
        log |-> IF failed = {} THEN <<>> ELSE <<[kind |-> "send", text |-> upto]>>]

\* sendMetrics: every datagram is written; the writes in failed return an error
\* and are logged.
SendMetrics(list, failed) ==
    [batch |-> [i \in 1..Len(list) |->
                    [name |-> list[i].name, value |-> list[i].value,
                     typ |-> list[i].typ, status |-> list[i].status,
                     ok |-> i \notin failed]],
     log |-> [i \in 1..Cardinality(failed) |->
                 [kind |-> "send",
                  text |-> CHOOSE j \in failed :
                              Cardinality({k \in failed : k < j}) = i - 1]]]

\* The goroutine's captured arguments.
TraceTask(rec) ==
    [statusCode |-> StatusCode(rec), hostname |-> Hostname(rec),
     method |-> rec.RequestMethod, url |-> rec.RequestPath]

\* What one call does, in order: the once-only log when it is the first, its
\* datagram writes, and the go statement.
WireOf(first, writes) ==
    (IF first THEN <<"log">> ELSE <<>>) \o [i \in 1..writes |-> "write"] \o <<"go">>

ProcessLogLine_LogAfterSend(rec, failed) ==
    LET statusCode == StatusCode(rec)
        durationMs == DurationMs(rec)
        sent == SendMetrics(MetricList(Itoa(statusCode), durationMs,
                                       IsError(statusCode),
                                       Apdex(durationMs, cfg.ApdexThreshold)),
                            failed)
    IN
    /\ processed' = Append(processed, rec)
    /\ once' = TRUE
    /\ logs' = logs \o sent.log \o <<[kind |-> "first", text |-> 0]>>
    /\ metrics' = Append(metrics, sent.batch)
    /\ tasks' = tasks (+) SetToBag({TraceTask(rec)})
    /\ wire' = wire \o [i \in 1..Len(sent.batch) |-> "write"] \o <<"log", "go">>
    /\ UNCHANGED spans

ProcessLogLine_GoFirst(rec, failed) ==
    LET statusCode == StatusCode(rec)
        durationMs == DurationMs(rec)
        sent == SendMetrics(MetricList(Itoa(statusCode), durationMs,
                                       IsError(statusCode),
                                       Apdex(durationMs, cfg.ApdexThreshold)),
                            failed)
    IN
    /\ processed' = Append(processed, rec)
    /\ once' = TRUE
    /\ logs' = logs \o (IF once THEN <<>> ELSE <<[kind |-> "first", text |-> 0]>>)
                    \o sent.log
    /\ metrics' = Append(metrics, sent.batch)
    /\ tasks' = tasks (+) SetToBag({TraceTask(rec)})
    /\ wire' = wire \o <<"go">> \o [i \in 1..Len(sent.batch) |-> "write"]
    /\ UNCHANGED spans

\* processLogLine with the writes in failed failing.
ProcessLogLine(rec, failed) ==
    LET statusCode == StatusCode(rec)
        durationMs == DurationMs(rec)
    IN
    \E sent \in {SendMetrics(MetricList(Itoa(statusCode), durationMs,
                                        IsError(statusCode),
                                        Apdex(durationMs, cfg.ApdexThreshold)),
                             failed)} :
    /\ processed' = Append(processed, rec)
    /\ once' = TRUE
    /\ logs' = logs \o (IF once THEN <<>> ELSE <<[kind |-> "first", text |-> 0]>>)
                    \o sent.log
    /\ metrics' = Append(metrics, sent.batch)
    /\ tasks' = tasks (+) SetToBag({TraceTask(rec)})
    /\ wire' = wire \o WireOf(~once, Len(sent.batch))
    /\ UNCHANGED spans

\* How many datagrams one call writes.
Writes(rec) == Len(MetricList(<<>>, 0, IsError(StatusCode(rec)), 0))

\* The writes that may fail while one record is read from the input and
\* processed: none, or the first of them (a disturbance), the others still
\* being attempted.
Failures(rec) ==
    {{}} \cup (IF events < MaxEvents THEN {{1}} ELSE {})

\* The body of both read loops: trim, skip the empty line, decode, process.
HandleLine(fd, fullLine) ==
    \E t \in {TrimSpace(fullLine)} : \E got \in {Unmarshal(t)} :
    IF t = <<>> THEN UNCHANGED <<outVars, events>>
    ELSE
      /\ handed' = Append(handed, [fd |-> fd, line |-> t])
      /\ IF got.ok
         THEN \E failed \in Failures(got.rec) :
                 /\ ProcessLogLine(got.rec, failed)
                 /\ events' = events + Cardinality(failed)
         ELSE /\ logs' = Append(logs, [kind |-> "parse", text |-> truncate(t, TruncateMax)])
              /\ UNCHANGED <<processed, metrics, once, tasks, spans, wire, events>>

\* sendTraceNative: the span that is finished.
SendTraceNative(task) ==
    [name |-> "traefik.request",
     resource |-> task.hostname,
     method |-> task.method,
     url |-> task.url,
     host |-> task.hostname,
     peerHostname |-> task.hostname,
     statusCode |-> task.statusCode,
     error |-> task.statusCode >= 400,
     errorType |-> IF task.statusCode >= 500 THEN "server_error"
                   ELSE IF task.statusCode >= 400 THEN "client_error"
                   ELSE ""]

TraceRun_Unrecovered ==
    /\ pc \notin {"main", "done", "fatalStart", "fatalRead", "fatalTooLong", "panic"}
    /\ \E task \in BagToSet(tasks) :
          /\ tasks' = tasks (-) SetToBag({task})
          /\ \/ /\ spans' = spans (+) SetToBag({SendTraceNative(task)})
                /\ UNCHANGED <<pc, logs, events>>
             \/ /\ events < MaxEvents
                /\ events' = events + 1
                /\ pc' = "panic"
                /\ UNCHANGED <<logs, spans>>
    /\ UNCHANGED <<mode, cfg, agent, fsVars, rdVars, nScanned, handed, processed, metrics, once, wire>>

\* A trace goroutine runs to its end, or panics and is recovered by its defer.
TraceRun ==
    /\ pc \notin {"main", "done", "fatalStart", "fatalRead", "fatalTooLong"}
    /\ \E task \in BagToSet(tasks) :
          /\ tasks' = tasks (-) SetToBag({task})
          /\ \/ /\ spans' = spans (+) SetToBag({SendTraceNative(task)})
                /\ UNCHANGED <<logs, events>>
             \/ /\ events < MaxEvents
                /\ events' = events + 1
                /\ logs' = Append(logs, [kind |-> "panic", text |-> 0])
                /\ UNCHANGED spans
    /\ UNCHANGED <<mode, cfg, agent, pc, fsVars, rdVars, nScanned, handed, processed, metrics, once, wire>>

\* ------------------------------------------------------------ main
\* The tracer is started with the agent address; then ResolveUDPAddr and
\* DialUDP: either fails and the process exits.
MainStart ==
    /\ pc = "main"
    /\ agent' = AgentAddr(cfg.DogStatsDAddress)
    /\ \/ /\ pc' = IF mode = "stream" THEN "scan" ELSE "open"
          /\ UNCHANGED events
       \/ /\ events < MaxEvents
          /\ events' = events + 1
          /\ pc' = "fatalStart"
    /\ UNCHANGED <<mode, cfg, fsVars, rdVars, nScanned, outVars>>

\* scanner.Buffer(buf, 512*1024)
MaxScanTokenSize == 512 * 1024

\* The lines stdin may deliver.
StreamLines ==
    { <<R("{", 1), R("D200", 1), R("}", 1)>>,
      <<R(" ", 1), R("{", 1), R("D404", 1), R("}", 1)>>,
      <<R("{", 1), R("O502", 1), R("}", 1)>>,
      <<R("{", 1), R("{", 1)>>,
      <<R("{", 1), R("x", TruncateMax)>>,
      <<R(" ", 2)>>,
      <<R("x", MaxScanTokenSize)>> }

\* One turn of the stream loop: scanner.Scan and the loop body, or the end.
StreamScan ==
    /\ mode = "stream" /\ pc = "scan"
    /\ \/ \E line \in StreamLines :
            /\ nScanned < MaxInput
            /\ IF StrLen(line) >= MaxScanTokenSize
               THEN \* bufio.ErrTooLong: Scan returns false, scanner.Err is set
                    /\ pc' = "fatalTooLong"
                    /\ UNCHANGED <<nScanned, outVars, events>>
               ELSE /\ HandleLine(0, line)
                    /\ nScanned' = nScanned + 1
                    /\ pc' = "scan"
       \/ \* end of input: main returns
          /\ pc' = "done"
          /\ UNCHANGED <<nScanned, outVars, events>>
       \/ \* stdin fails: log.Fatalf
          /\ events < MaxEvents
          /\ events' = events + 1
          /\ pc' = "fatalRead"
          /\ UNCHANGED <<nScanned, outVars>>
    /\ UNCHANGED <<mode, cfg, agent, fsVars, rdVars>>

\* Startup loop: os.Open.
TailOpen ==
    /\ mode = "tail" /\ pc = "open"
    /\ \/ /\ path # 0
          /\ files' = Append(files, OpenFile(path))
          /\ file' = Len(files) + 1
          /\ openMark' = BytesWritten
          /\ pc' = "stat0"
          /\ UNCHANGED events
       \/ /\ path = 0 \/ events < MaxEvents
          /\ events' = IF path = 0 THEN events ELSE events + 1
          /\ file' = 0
          /\ pc' = "open"
          /\ UNCHANGED <<files, openMark>>
    /\ UNCHANGED <<mode, cfg, agent, fsVars, reader, lastSize, partialLine, startFd, seekMark, nScanned, outVars>>

\* Startup loop: file.Stat.
TailStat0 ==
    /\ mode = "tail" /\ pc = "stat0"
    /\ \/ /\ lastSize' = Len(Content(file))
          /\ pc' = "seek0"
          /\ UNCHANGED <<files, events>>
       \/ /\ events < MaxEvents
          /\ events' = events + 1
          /\ files' = Close(files, file)
          /\ pc' = "open"
          /\ UNCHANGED lastSize
    /\ UNCHANGED <<mode, cfg, agent, fsVars, file, reader, partialLine, startFd, openMark, seekMark, nScanned, outVars>>

TailSeek0_NoSeek ==
    /\ mode = "tail" /\ pc = "seek0"
    /\ files' = [files EXCEPT ![file].cut = FALSE]
    /\ reader' = [f |-> file, buf |-> <<>>]
    /\ partialLine' = <<>>
    /\ startFd' = file
    /\ seekMark' = BytesWritten
    /\ pc' = "read"
    /\ UNCHANGED <<mode, cfg, agent, fsVars, events, file, lastSize, openMark, nScanned, outVars>>

\* Startup loop: file.Seek(0, io.SeekEnd), then the reader is made.
TailSeek0 ==
    /\ mode = "tail" /\ pc = "seek0"
    /\ \/ /\ files' = [files EXCEPT ![file].off = Len(Content(file)),
                                      ![file].cut = FALSE]
          /\ reader' = [f |-> file, buf |-> <<>>]
          /\ partialLine' = <<>>
          /\ startFd' = file
          /\ seekMark' = BytesWritten
          /\ pc' = "read"
          /\ UNCHANGED events
       \/ /\ events < MaxEvents
          /\ events' = events + 1
          /\ files' = Close(files, file)
          /\ pc' = "open"
          /\ UNCHANGED <<reader, partialLine, startFd, seekMark>>
    /\ UNCHANGED <<mode, cfg, agent, fsVars, file, lastSize, openMark, nScanned, outVars>>

Avail_FromStart(f) == Content(f)

\* What a Read at the descriptor's offset returns.
Avail(f) ==
    IF files[f].off >= Len(Content(f)) THEN <<>>
    ELSE SubSeq(Content(f), files[f].off + 1, Len(Content(f)))

\* reader.ReadString('\n') and the branch taken on its result.
TailRead ==
    /\ mode = "tail" /\ pc = "read"
    /\ LET f == reader.f
           inBuf == IndexNL(reader.buf, 1)
       IN
       \/ \* the delimiter is in the buffer: no read
          /\ inBuf > 0
          /\ reader' = [reader EXCEPT !.buf = SubSeq(@, inBuf + 1, Len(@))]
          /\ HandleLine(f, partialLine \o SubSeq(reader.buf, 1, inBuf))
          /\ partialLine' = <<>>
          /\ pc' = "read"
          /\ UNCHANGED files
       \/ \* the buffer is filled from the descriptor
          /\ inBuf = 0 /\ ~files[f].closed
          /\ \E data \in {reader.buf \o Avail(f)} : \E at \in {IndexNL(data, 1)} :
             /\ files' = [files EXCEPT ![f].off = @ + Len(Avail(f))]
             /\ \/ /\ at > 0
                   /\ reader' = [reader EXCEPT !.buf = SubSeq(data, at + 1, Len(data))]
                   /\ HandleLine(f, partialLine \o SubSeq(data, 1, at))
                   /\ partialLine' = <<>>
                   /\ pc' = "read"
                \/ \* io.EOF: what was read joins the partial line
                   /\ at = 0
                   /\ reader' = [reader EXCEPT !.buf = <<>>]
                   /\ partialLine' = partialLine \o data
                   /\ pc' = "eofStat"
                   /\ UNCHANGED <<outVars, events>>
       \/ \* the read fails: the descriptor is closed, or the device errs
          /\ inBuf = 0
          /\ \/ files[f].closed /\ UNCHANGED events
             \/ ~files[f].closed /\ events < MaxEvents /\ events' = events + 1
          /\ reader' = [reader EXCEPT !.buf = <<>>]
          /\ files' = Close(files, file)
          /\ pc' = "reopenE"
          /\ UNCHANGED <<partialLine, outVars>>
    /\ UNCHANGED <<mode, cfg, agent, fsVars, file, lastSize, startFd, openMark, seekMark, nScanned>>

\* At end-of-file: file.Stat and the size comparison.
TailEofStat ==
    /\ mode = "tail" /\ pc = "eofStat"
    /\ \/ \* Stat fails
          /\ \/ Invalid(file) /\ UNCHANGED events
             \/ ~Invalid(file) /\ events < MaxEvents /\ events' = events + 1
          /\ files' = Close(files, file)
          /\ pc' = "reopenS"
          /\ UNCHANGED lastSize
       \/ /\ ~Invalid(file)
          /\ LET currentSize == Len(Content(file)) IN
             IF currentSize < lastSize
             THEN /\ files' = Close(files, file)
                  /\ pc' = "reopenT"
                  /\ UNCHANGED lastSize
             ELSE /\ lastSize' = currentSize
                  /\ pc' = "read"
                  /\ UNCHANGED files
          /\ UNCHANGED events
    /\ UNCHANGED <<mode, cfg, agent, fsVars, file, reader, partialLine, startFd, openMark, seekMark, nScanned, outVars>>

\* os.Open inside the read loop; clearPartial tells the path taken.
Reopen(clearPartial) ==
    \/ /\ path # 0
       /\ files' = Append(files, OpenFile(path))
       /\ file' = Len(files) + 1
       /\ reader' = [f |-> Len(files) + 1, buf |-> <<>>]
       /\ lastSize' = 0
       /\ partialLine' = IF clearPartial THEN <<>> ELSE partialLine
       /\ UNCHANGED events
    \/ /\ path = 0 \/ events < MaxEvents
       /\ events' = IF path = 0 THEN events ELSE events + 1
       /\ file' = 0
       /\ UNCHANGED <<files, reader, lastSize, partialLine>>

\* After a failed Stat.
TailReopenStat ==
    /\ mode = "tail" /\ pc = "reopenS"
    /\ Reopen(FALSE)
    /\ pc' = "read"
    /\ UNCHANGED <<mode, cfg, agent, fsVars, startFd, openMark, seekMark, nScanned, outVars>>

\* After the file was seen to shrink.
TailReopenTrunc ==
    /\ mode = "tail" /\ pc = "reopenT"
    /\ Reopen(TRUE)
    /\ pc' = "read"
    /\ UNCHANGED <<mode, cfg, agent, fsVars, startFd, openMark, seekMark, nScanned, outVars>>

TailReopenErr_NoRetry ==
    /\ mode = "tail" /\ pc = "reopenE"
    /\ IF file = 0
       THEN UNCHANGED <<events, files, file, reader, lastSize, partialLine>>
       ELSE Reopen(TRUE)
    /\ pc' = "read"
    /\ UNCHANGED <<mode, cfg, agent, fsVars, startFd, openMark, seekMark, nScanned, outVars>>

\* After a read error.
TailReopenErr ==
    /\ mode = "tail" /\ pc = "reopenE"
    /\ Reopen(TRUE)
    /\ pc' = "read"
    /\ UNCHANGED <<mode, cfg, agent, fsVars, startFd, openMark, seekMark, nScanned, outVars>>

\* ------------------------------------------------------------ specification
\* Nothing has happened yet.
Blank ==
    /\ inodes = <<>>
    /\ path = 0
    /\ pending = <<>>
    /\ nWritten = 0
    /\ events = 0
    /\ files = <<>>
    /\ file = 0
    /\ reader = [f |-> 0, buf |-> <<>>]
    /\ lastSize = 0
    /\ partialLine = <<>>
    /\ startFd = 0
    /\ openMark = 0
    /\ seekMark = 0
    /\ truncated = FALSE
    /\ nScanned = 0
    /\ handed = <<>>
    /\ processed = <<>>
    /\ metrics = <<>>
    /\ logs = <<>>
    /\ once = FALSE
    /\ tasks = EmptyBag
    /\ spans = EmptyBag
    /\ wire = <<>>

Init ==
    /\ mode \in {"stream", "tail"}
    /\ pc = "main"
    /\ cfg = DefaultConfig
    /\ agent = <<>>
    /\ Blank

Next ==
    \/ MainStart
    \/ StreamScan
    \/ TraceRun
    \/ WriterCreate
    \/ WriterRename
    \/ WriterAppend
    \/ WriterTruncate
    \/ TailOpen
    \/ TailStat0
    \/ TailSeek0
    \/ TailRead
    \/ TailEofStat
    \/ TailReopenStat
    \/ TailReopenTrunc
    \/ TailReopenErr

Spec == Init /\ [][Next]_vars

\* ------------------------------------------------------------ main's startup alone
\* Values of DOGSTATSD_ADDRESS and SERVICE_NAME.
ConfigHosts == {"datadog-apm.datadog.svc", "localhost", "10.0.0.1"}

ConfigPorts ==
    { <<"8", "1", "2", "7">>, <<"8", "1", "2", "6">>, <<"9", "1", "2", "5">>,
      <<"4", "3", "1", "8">>, <<"8", "1", "2", "7", "0">>, <<"1">> }

ConfigServices == { <<R("traefik-cfs-staging-echo", 1)>>, <<R("edge", 1)>>, <<>> }

\* getEnv: an empty SERVICE_NAME gives the default.
Configs ==
    {[DefaultConfig EXCEPT !.DogStatsDAddress = Address(h, p),
                           !.ServiceName = IF sv = <<>> THEN DefaultConfig.ServiceName
                                           ELSE sv] :
        h \in ConfigHosts, p \in ConfigPorts, sv \in ConfigServices}

InitConfig ==
    /\ mode \in {"stream", "tail"}
    /\ pc = "main"
    /\ cfg \in Configs
    /\ agent = <<>>
    /\ Blank

NextConfig == MainStart

SpecConfig == InitConfig /\ [][NextConfig]_vars

\* ------------------------------------------------------------ the read loop alone
\* tailFile has finished its startup on a file of n lines, which the writer
\* may since have renamed away.
InitLoop ==
    /\ mode = "tail" /\ pc = "read"
    /\ cfg = DefaultConfig /\ agent = AgentAddr(DefaultConfig.DogStatsDAddress)
    /\ \E n \in 0..1 :
          /\ inodes = << IF n = 0 THEN <<>> ELSE Bytes(CHOOSE d \in TailDocs : TRUE, 1) >>
          /\ nWritten = n
          /\ files = << [OpenFile(1) EXCEPT !.off = n * DocLen] >>
          /\ lastSize = n * DocLen
          /\ openMark = n * DocLen
          /\ seekMark = n * DocLen
    /\ path \in {0, 1}
    /\ pending = <<>>
    /\ events = 0
    /\ file = 1
    /\ reader = [f |-> 1, buf |-> <<>>]
    /\ partialLine = <<>>
    /\ startFd = 1
    /\ truncated = FALSE
    /\ nScanned = 0
    /\ handed = <<>> /\ processed = <<>> /\ metrics = <<>> /\ logs = <<>>
    /\ once = FALSE /\ tasks = EmptyBag /\ spans = EmptyBag /\ wire = <<>>

\* One turn of the read loop: every branch ends in continue after a sleep of
\* fixed length, so the loop always comes to its next turn.
LoopStep ==
    \/ TailRead
    \/ TailEofStat
    \/ TailReopenStat
    \/ TailReopenTrunc
    \/ TailReopenErr

NextLoop ==
    \/ LoopStep
    \/ WriterCreate
    \/ WriterRename
    \/ WriterAppend
    \/ WriterTruncate

SpecLoop == InitLoop /\ [][NextLoop]_vars /\ WF_vars(LoopStep)

\* ------------------------------------------------------------ processLogLine alone
\* The status codes a record is given.
StatusValues == {-1, 0, 200, 399, 400, 404, 502}

\* Durations around the two apdex thresholds, in nanoseconds.
DurationValues ==
    {-1, 0, 300000000, 500000000, 500000001, 1500000000, 2000000000, 2000000001}

\* RequestHost, RequestAddr and RequestMethod.
RequestValues ==
    { <<<<>>, <<>>, <<R("GET", 1)>>>>,
      <<<<>>, <<R("10.0.0.1", 1)>>,
        <<R("GET", 1), R(",", 1), R("evil", 1), R("|", 1), R("tag", 1)>>>>,
      <<Chars(<<"a", ",", "b", "|", "c", "\n">>), <<>>,
        <<R("GET", 1), R(",", 1), R("evil", 1), R("|", 1), R("tag", 1)>>>>,
      <<<<R("example.com", 1)>>, <<R("10.0.0.1", 1)>>, <<R("POST", 1)>>>> }

Records ==
    {[ZeroLog EXCEPT !.DownstreamStatus = d, !.OriginStatus = o, !.Duration = t,
                     !.RequestHost = q[1], !.RequestAddr = q[2],
                     !.RequestMethod = q[3]] :
        d \in StatusValues, o \in StatusValues, t \in DurationValues,
        q \in RequestValues}

\* The configurations a record is processed under.
RecordConfigs ==
    { DefaultConfig,
      [DefaultConfig EXCEPT !.ServiceName = Chars(<<"s", ",", "v", "|", "c">>),
                            !.Environment = Chars(<<"e", "\n", "v">>),
                            !.Version = Chars(<<"1", "|", "0">>)] }

\* The writes that fail in one call: none, any one, or all.
CallFailures(rec) ==
    LET k == Writes(rec) IN
    {{}, 1..k} \cup {{i} : i \in 1..k}

InitRecord ==
    /\ mode = "stream"
    /\ pc = "call"
    /\ cfg \in RecordConfigs
    /\ agent = AgentAddr(cfg.DogStatsDAddress)
    /\ Blank

\* processLogLine is called once, with any record.
CallProcessLogLine ==
    /\ pc = "call"
    /\ \E rec \in Records : \E failed \in CallFailures(rec) :
          ProcessLogLine(rec, failed)
    /\ pc' = "called"
    /\ UNCHANGED <<mode, cfg, agent, fsVars, events, rdVars, nScanned, handed>>

NextRecord ==
    \/ CallProcessLogLine
    \/ TraceRun

SpecRecord == InitRecord /\ [][NextRecord]_vars

\* ------------------------------------------------------------ properties
\* The place of a byte in the order the writer appended bytes to the path.
Serial(b) == (b.id - 1) * DocLen + b.pos

\* Line k as the decoder should receive it: its bytes without the newline.
WholeLine(k) == TrimSpace(Bytes(CHOOSE d \in TailDocs : TRUE, k))

\* Line k was begun after startup had positioned the reader.
Late(k) == (k - 1) * DocLen >= seekMark

\* Line k lies whole in the file the path names.
AtPath(k) ==
    /\ path # 0
    /\ \E i \in 1..Len(inodes[path]) :
          /\ i + DocLen - 1 <= Len(inodes[path])
          /\ \A j \in 1..DocLen :
                /\ inodes[path][i + j - 1].id = k
                /\ inodes[path][i + j - 1].pos = j

HandedIds(h) == {h.line[i].id : i \in DOMAIN h.line}

HandedBytes(h) == {<<h.line[i].id, h.line[i].pos>> : i \in DOMAIN h.line}

NoLineTwice ==
    \A i, j \in DOMAIN handed :
        i < j => HandedBytes(handed[i]) \cap HandedBytes(handed[j]) = {}

Rotated == Len(inodes) > 1 \/ (inodes # <<>> /\ path = 0)

\* The reader is idle: it is at the end of its file, a poll changes nothing,
\* and the writer is between lines.
Quiescent ==
    /\ mode = "tail" /\ pc = "read"
    /\ pending = <<>>
    /\ reader.buf = <<>>
    /\ file # 0 /\ file = reader.f /\ ~files[file].closed
    /\ Avail(file) = <<>>
    /\ Len(Content(file)) >= lastSize

\* C1 (as claimed, for the lines begun after startup, and already without any
\* truncation): in tail mode the lines handed to the decoder are the complete
\* lines written to the path: none is a fragment, none is handed twice, and
\* once the reader is idle every line that lies whole in the file at the path
\* has been handed.
C1_HandedExactlyWritten ==
    mode = "tail" /\ ~truncated =>
      /\ \A i \in DOMAIN handed :
            (\E k \in HandedIds(handed[i]) : Late(k))
               => \E k \in 1..nWritten : handed[i].line = WholeLine(k)
      /\ NoLineTwice
      /\ Quiescent =>
            \A k \in 1..nWritten :
                Late(k) /\ AtPath(k)
                   => \E i \in DOMAIN handed : handed[i].line = WholeLine(k)

\* C2 (as claimed): once the tailed file was truncated, the end-of-file poll
\* that follows does not keep the descriptor: the reader goes to reopen the
\* path, whatever size the file has by then.
C2_TruncationReopens ==
    [][(pc = "eofStat" /\ ~Invalid(file) /\ files[file].cut /\ TailEofStat)
          => pc' # "read"]_vars

\* C3 (as claimed): whenever tailFile's reader is put on another descriptor,
\* the buffered partial line is empty.
C3_ReopenClearsPartial ==
    [][reader'.f # reader.f => partialLine' = <<>>]_vars

\* C5 (as claimed): while the file is only appended to, no line is handed to
\* the decoder twice, reopen or not.
C5_NoReprocessing ==
    mode = "tail" /\ ~truncated /\ ~Rotated => NoLineTwice

\* Line k is the next line a ReadString of the startup descriptor returns, it
\* was written whole after startup, and nothing disturbed that descriptor.
C4_Ready(k) ==
    /\ mode = "tail" /\ pc = "read"
    /\ Len(files) = 1 /\ file = 1 /\ reader.f = 1
    /\ ~files[1].closed /\ ~files[1].cut
    /\ Late(k)
    /\ LET data == partialLine \o reader.buf \o Avail(1)
           doc == Bytes(CHOOSE d \in TailDocs : TRUE, k)
       IN Len(data) >= DocLen /\ SubSeq(data, 1, DocLen) = doc

\* C4: with the startup descriptor still in use and its file never truncated,
\* the ReadString that follows the append of a complete line hands exactly
\* that line to the decoder, a line that was not handed before; nothing else
\* is handed, the line is processed, and the descriptor stays open and in
\* use; and as long as that holds no line has been handed over twice.
C4_AppendedLineReadOnce ==
    [][/\ \A k \in 1..nWritten :
            (C4_Ready(k) /\ TailRead /\ pc' # "reopenE")
               => /\ handed' = Append(handed, [fd |-> 1, line |-> WholeLine(k)])
                  /\ \A i \in DOMAIN handed : k \notin HandedIds(handed[i])
                  /\ Len(processed') = Len(processed) + 1
                  /\ file' = 1 /\ reader'.f = 1 /\ ~files'[1].closed
                  /\ pc' = "read"
       /\ (mode = "tail" /\ Len(files') = 1 /\ ~files'[1].cut) => NoLineTwice']_vars

\* The second line was appended after the reader had met end-of-file behind
\* the first, and both were handed once.
C4_Witness ==
    /\ mode = "tail" /\ Len(files) = 1 /\ ~files[1].cut /\ ~files[1].closed
    /\ lastSize = DocLen /\ seekMark = 0
    /\ Len(handed) = 2
    /\ handed[1].line = WholeLine(1) /\ handed[2].line = WholeLine(2)

\* C6: at the top of the startup loop no descriptor is open and a further
\* attempt is always possible; and every line handed over through the
\* descriptor startup ended with is made of bytes appended after that
\* descriptor was opened.
C6_StartupSkipsOldContent ==
    mode = "tail" =>
      /\ pc = "open" => \A f \in DOMAIN files : files[f].closed
      /\ pc \in {"open", "stat0", "seek0"}
            => ENABLED (TailOpen \/ TailStat0 \/ TailSeek0)
      /\ \A i \in DOMAIN handed :
            handed[i].fd = startFd
               => \A j \in DOMAIN handed[i].line :
                     Serial(handed[i].line[j]) > openMark

\* Startup needed a second attempt, skipped what the file held, and a line
\* appended later went through.
C6_Witness ==
    /\ mode = "tail" /\ startFd = 2 /\ openMark > 0
    /\ \E i \in DOMAIN handed : handed[i].fd = startFd

\* The handed lines that do not decode, and the diagnostics written for them.
BadLines == SelectSeq(handed, LAMBDA h : ~Unmarshal(h.line).ok)

ParseLogs == SelectSeq(logs, LAMBDA e : e.kind = "parse")

PanicLogs == SelectSeq(logs, LAMBDA e : e.kind = "panic")

\* C7 (amended): in both modes every line that fails to decode gets exactly
\* one diagnostic, which carries the line itself when it has at most 80 bytes
\* and its first 80 bytes followed by "..." otherwise; it gets no metric and
\* no trace, and every line that decodes, before or after it, is processed.
C7_OneDiagnosticPerBadLine ==
    /\ Len(ParseLogs) = Len(BadLines)
    /\ \A i \in DOMAIN BadLines :
          LET l == BadLines[i].line
              t == ParseLogs[i].text
          IN IF StrLen(l) <= TruncateMax
             THEN t = l
             ELSE /\ StrLen(t) = TruncateMax + 3
                  /\ t = Take(l, TruncateMax) \o <<R(".", 3)>>
    /\ Len(processed) = Len(handed) - Len(BadLines)
    /\ Len(metrics) = Len(processed)
    /\ BagCardinality(tasks) + BagCardinality(spans) + Len(PanicLogs) = Len(processed)

\* C7 (as claimed): every diagnostic is the first 80 characters of the line
\* followed by the ellipsis marker.
C7_AlwaysEllipsis ==
    /\ Len(ParseLogs) = Len(BadLines)
    /\ \A i \in DOMAIN BadLines :
          ParseLogs[i].text = Take(BadLines[i].line, TruncateMax) \o <<R(".", 3)>>

\* A line of more than 80 bytes failed to decode and the line after it was
\* processed.
C7_Witness ==
    /\ Len(handed) = 2 /\ Len(BadLines) = 1 /\ Len(processed) = 1
    /\ ~Unmarshal(handed[1].line).ok
    /\ StrLen(handed[1].line) > TruncateMax
    /\ StrLen(ParseLogs[1].text) = TruncateMax + 3

TailStep ==
    \/ TailOpen \/ TailStat0 \/ TailSeek0 \/ TailRead \/ TailEofStat
    \/ TailReopenStat \/ TailReopenTrunc \/ TailReopenErr

\* C8 (as claimed; a failed read of stdin is taken as the end of the input):
\* in tail mode the process never exits once started and its loop can always
\* take a step; in stream mode no line makes the process exit.
C8_OnlyEndOfInputExits ==
    /\ mode = "tail" =>
          /\ pc \notin {"done", "fatalRead", "fatalTooLong"}
          /\ pc \notin {"main", "fatalStart"} => ENABLED TailStep
    /\ mode = "stream" => pc # "fatalTooLong"

\* The scan loop can process a next line, whatever tasks are pending.
MainLoopFree ==
    (pc = "scan" /\ nScanned < MaxInput)
        => ENABLED (StreamScan /\ Len(processed') > Len(processed))

\* C9: whatever tasks are pending, the scan loop can process a next line and
\* a read of the tailed file that hands over a line that decodes processes it; the
\* step that processes a record starts its trace task and finishes no task,
\* so earlier tasks stay pending while the loop goes on; and a task that
\* panics is removed and logged while the main thread, the other tasks and
\* everything already emitted stay as they were.
C9_TraceTasksDetached ==
    /\ []MainLoopFree
    /\ [][/\ (pc = "read" /\ Len(handed') > Len(handed)
                /\ Unmarshal(handed'[Len(handed')].line).ok)
            => Len(processed') > Len(processed)
          /\ Len(processed') > Len(processed)
               => /\ tasks' = tasks (+) SetToBag({TraceTask(processed'[Len(processed')])})
                  /\ spans' = spans
                  /\ pc' \in {"scan", "read"}
          /\ (BagCardinality(tasks') < BagCardinality(tasks) /\ events' # events)
            => /\ pc' = pc
               /\ logs' = Append(logs, [kind |-> "panic", text |-> 0])
               /\ \E task \in BagToSet(tasks) : tasks' = tasks (-) SetToBag({task})
               /\ UNCHANGED <<handed, processed, metrics, spans, rdVars>>]_vars

\* Two records were processed, a trace task panicked and another is pending.
C9_Witness ==
    /\ Len(processed) = 2
    /\ Len(PanicLogs) = 1
    /\ BagCardinality(tasks) = 1
    /\ spans = EmptyBag
    /\ pc \in {"scan", "read"}

RECURSIVE Atoi(_)
Atoi(t) ==
    IF t = <<>> THEN 0
    ELSE IF t[1].ch = "-" THEN 0 - Atoi(Tail(t))
    ELSE 10 * Atoi(SubSeq(t, 1, Len(t) - 1))
         + (CHOOSE d \in 0..9 : Digit(d) = t[Len(t)].ch)

\* The places of the metric called name among record i's writes.
Named(i, name) == {j \in DOMAIN metrics[i] : metrics[i][j].name = name}

\* C10: for every record, with the effective status DownstreamStatus, or
\* OriginStatus when that is zero, request.errors and
\* request.errors.by_http_status are each written once when the status is at
\* least 400, the latter tagged with the status, and neither is written when
\* it is below 400.
C10_ErrorCounters ==
    \A i \in DOMAIN processed :
        LET eff == IF processed[i].DownstreamStatus # 0
                   THEN processed[i].DownstreamStatus
                   ELSE processed[i].OriginStatus
            errs == Named(i, "trace.traefik.request.errors")
            byStatus == Named(i, "trace.traefik.request.errors.by_http_status")
        IN IF eff >= 400
           THEN /\ Cardinality(errs) = 1 /\ Cardinality(byStatus) = 1
                /\ \A j \in errs : metrics[i][j].status = <<>>
                /\ \A j \in byStatus : Atoi(metrics[i][j].status) = eff
           ELSE errs = {} /\ byStatus = {}

\* A record whose status falls back to OriginStatus 502 got both counters.
C10_Witness ==
    /\ pc = "called"
    /\ processed[1].DownstreamStatus = 0 /\ processed[1].OriginStatus = 502
    /\ Len(metrics[1]) = 7

\* The effective status of record i, as the status rule states it.
Effective(i) ==
    IF processed[i].DownstreamStatus # 0 THEN processed[i].DownstreamStatus
    ELSE processed[i].OriginStatus

\* C11: for every processed record the write attempts are, in this order,
\* hits (c), hits.by_http_status (c), duration (h), duration.by_http_status
\* (h), apdex (g), then errors (c) and errors.by_http_status (c) exactly when
\* the effective status is at least 400: 5 or 7 attempts, whichever of them
\* fail.
C11_WriteAttempts ==
    \A i \in DOMAIN metrics :
        LET attempts == [j \in DOMAIN metrics[i] |->
                            <<metrics[i][j].name, metrics[i][j].typ>>]
            five == << <<"trace.traefik.request.hits", "c">>,
                       <<"trace.traefik.request.hits.by_http_status", "c">>,
                       <<"trace.traefik.request.duration", "h">>,
                       <<"trace.traefik.request.duration.by_http_status", "h">>,
                       <<"trace.traefik.request.apdex", "g">> >>
            two == << <<"trace.traefik.request.errors", "c">>,
                      <<"trace.traefik.request.errors.by_http_status", "c">> >>
        IN /\ attempts = (IF Effective(i) >= 400 THEN five \o two ELSE five)
           /\ Len(attempts) \in {5, 7}

\* Every write of an error record failed, and all seven were attempted and
\* each failure was logged.
C11_Witness ==
    /\ pc = "called"
    /\ Len(metrics[1]) = 7
    /\ \A j \in DOMAIN metrics[1] : ~metrics[1][j].ok
    /\ Len(SelectSeq(logs, LAMBDA e : e.kind = "send")) = 7

\* The datagram written for metric j of record i: payload := []byte(metric + "\n").
Payload(i, j) ==
    MetricLine(metrics[i][j], Tags(processed[i], cfg)) \o <<R("\n", 1)>>

\* The pieces of s between the runs that are the byte sep.
RECURSIVE Split(_, _, _)
Split(s, sep, piece) ==
    IF s = <<>> THEN <<piece>>
    ELSE IF s[1].ch = sep THEN <<piece>> \o Split(Tail(s), sep, <<>>)
    ELSE Split(Tail(s), sep, Append(piece, s[1]))

\* The position of the first run of s that is the byte c, 0 when there is none.
RECURSIVE Find(_, _, _)
Find(s, c, i) ==
    IF i > Len(s) THEN 0 ELSE IF s[i].ch = c THEN i ELSE Find(s, c, i + 1)

\* A value with each ',', '|' and newline replaced by '_'.
Cleaned(v) ==
    [k \in DOMAIN v |->
        IF v[k].ch \in {",", "|", "\n"} THEN [v[k] EXCEPT !.ch = "_"] ELSE v[k]]

\* The seven tags of record i as the wire format requires them.
WantedTags(i) ==
    LET rec == processed[i]
        host == IF rec.RequestHost # <<>> THEN rec.RequestHost
                ELSE IF rec.RequestAddr # <<>> THEN rec.RequestAddr
                ELSE <<R("unknown", 1)>>
    IN << <<R("peer.hostname:", 1)>> \o Cleaned(host),
          <<R("http.status_code:", 1)>> \o Itoa(Effective(i)),
          <<R("resource_name:", 1)>> \o Cleaned(host),
          <<R("http.method:", 1)>> \o Cleaned(rec.RequestMethod),
          <<R("service:", 1)>> \o Cleaned(cfg.ServiceName),
          <<R("env:", 1)>> \o Cleaned(cfg.Environment),
          <<R("version:", 1)>> \o Cleaned(cfg.Version) >>

\* C12: every datagram is one line (its only newline is its last byte), and
\* splitting what follows its '#' on ',' gives exactly the tags
\* peer.hostname, http.status_code, resource_name, http.method, service, env,
\* version, in this order, followed on the by_http_status metrics by the
\* status tag; each carries its value with ',', '|' and newline replaced by
\* '_', so no tag holds a ',', a '|' or a newline.
C12_TagsSanitized ==
    \A i \in DOMAIN metrics : \A j \in DOMAIN metrics[i] :
        LET line == Payload(i, j)
            hash == Find(line, "#", 1)
            section == SubSeq(line, hash + 1, Len(line) - 1)
            got == Split(section, ",", <<>>)
            status == IF metrics[i][j].status = <<>> THEN <<>>
                      ELSE << <<R("status:", 1)>> \o Itoa(Effective(i)) >>
        IN /\ Find(line, "\n", 1) = Len(line)
           /\ hash > 0
           /\ got = WantedTags(i) \o status
           /\ \A k \in DOMAIN got : \A x \in DOMAIN got[k] :
                 got[k][x].ch \notin {",", "|", "\n"}

\* A record with the method "GET,evil|tag" and a host name holding all three
\* delimiters was sent under a configuration whose values hold them too.
C12_Witness ==
    /\ pc = "called"
    /\ processed[1].RequestMethod
          = <<R("GET", 1), R(",", 1), R("evil", 1), R("|", 1), R("tag", 1)>>
    /\ Find(processed[1].RequestHost, "\n", 1) > 0
    /\ Find(cfg.ServiceName, "|", 1) > 0
    /\ Tags(processed[1], cfg)[4]
          = <<R("http.method:", 1), R("GET", 1), R("_", 1), R("evil", 1), R("_", 1), R("tag", 1)>>
    /\ Len(metrics[1]) = 7

\* The apdex datagrams of record i.
ApdexWrites(i) == Named(i, "trace.traefik.request.apdex")

\* C13: for every record the apdex metric carries 1.00 when Duration is at
\* most 500,000,000 ns (zero and negative durations included), 0.50 when it
\* is above that and at most 2,000,000,000 ns, and 0.00 otherwise, whatever
\* the other fields of the record and the configuration are.
C13_ApdexBuckets ==
    \A i \in DOMAIN metrics :
        /\ Cardinality(ApdexWrites(i)) = 1
        /\ \A j \in ApdexWrites(i) :
              LET d == processed[i].Duration
                  printed == MetricValue(metrics[i][j])
              IN /\ d <= 500000000 => printed = Chars(<<"1", ".", "0", "0">>)
                 /\ (d > 500000000 /\ d <= 2000000000)
                       => printed = Chars(<<"0", ".", "5", "0">>)
                 /\ d > 2000000000 => printed = Chars(<<"0", ".", "0", "0">>)

\* A record of exactly 2,000,000,000 ns got 0.50.
C13_Witness ==
    /\ pc = "called"
    /\ processed[1].Duration = 2000000000
    /\ metrics[1][5].name = "trace.traefik.request.apdex"
    /\ metrics[1][5].value = 50

\* The tags datagram j of record i carries: what follows its '#', split on ','.
SentTags(i, j) ==
    LET line == Payload(i, j) IN
    Split(SubSeq(line, Find(line, "#", 1) + 1, Len(line) - 1), ",", <<>>)

\* The hostname of record i as the fallback rule states it.
WantedHost(i) ==
    IF processed[i].RequestHost # <<>> THEN processed[i].RequestHost
    ELSE IF processed[i].RequestAddr # <<>> THEN processed[i].RequestAddr
    ELSE <<R("unknown", 1)>>

\* C14 (amended): the hostname of a record is RequestHost when non-empty,
\* else RequestAddr when non-empty, else "unknown", so it is never empty; the
\* trace task and the span's resource name, http.host and peer.hostname carry
\* this value, and the peer.hostname and resource_name tags of every datagram
\* carry it with each ',', '|' and newline replaced by '_'.
C14_HostnameFallback ==
    \A i \in DOMAIN processed :
        /\ WantedHost(i) # <<>>
        /\ \A j \in DOMAIN metrics[i] :
              /\ SentTags(i, j)[1] = <<R("peer.hostname:", 1)>> \o Cleaned(WantedHost(i))
              /\ SentTags(i, j)[3] = <<R("resource_name:", 1)>> \o Cleaned(WantedHost(i))
        /\ Len(processed) = 1
              => /\ \A t \in BagToSet(tasks) : t.hostname = WantedHost(i)
                 /\ \A sp \in BagToSet(spans) :
                       /\ sp.resource = WantedHost(i)
                       /\ sp.host = WantedHost(i)
                       /\ sp.peerHostname = WantedHost(i)

\* C14 (as claimed): the two tags and the span's resource name carry the
\* hostname itself.
C14_OneValueEverywhere ==
    \A i \in DOMAIN processed :
        /\ \A j \in DOMAIN metrics[i] :
              /\ SentTags(i, j)[1] = <<R("peer.hostname:", 1)>> \o WantedHost(i)
              /\ SentTags(i, j)[3] = <<R("resource_name:", 1)>> \o WantedHost(i)
        /\ Len(processed) = 1
              => \A sp \in BagToSet(spans) : sp.resource = WantedHost(i)

\* A record without RequestHost fell back to its RequestAddr, in its tags and
\* in its finished span.
C14_Witness ==
    /\ pc = "called"
    /\ processed[1].RequestHost = <<>>
    /\ processed[1].RequestAddr = <<R("10.0.0.1", 1)>>
    /\ SentTags(1, 1)[1] = <<R("peer.hostname:", 1), R("10.0.0.1", 1)>>
    /\ \E sp \in BagToSet(spans) : sp.resource = <<R("10.0.0.1", 1)>>

\* C15 (as claimed): whatever the HTTP status of the record, the finished
\* span carries no error flag and no error type; the status is only a tag.
C15_SpanNeverFailed ==
    \A sp \in BagToSet(spans) : ~sp.error /\ sp.errorType = ""

\* C16 (as claimed): once the tracer is started, the address it sends to is
\* the host of the configured statistics address with the port 8126, and so
\* differs from the statistics address.
C16_AgentOnTracePort ==
    pc # "main" =>
        LET address == cfg.DogStatsDAddress
            colon == Find(address, ":", 1)
        IN /\ agent = SubSeq(address, 1, colon) \o Chars(<<"8", "1", "2", "6">>)
           /\ agent # address

\* The handed lines that decode, in the order they were handed over.
GoodLines == SelectSeq(handed, LAMBDA h : Unmarshal(h.line).ok)

\* What processing records i..Len(processed) one after the other puts on the
\* wire: for each, the once-only log if it is the first, its writes, its go.
RECURSIVE InOrder(_)
InOrder(i) ==
    IF i > Len(processed) THEN <<>>
    ELSE (IF i = 1 THEN <<"log">> ELSE <<>>)
         \o [k \in 1..Len(metrics[i]) |-> "write"] \o <<"go">> \o InOrder(i + 1)

\* C17: the records processed are the lines the reader produced that decode,
\* in the order the reader produced them, and the writes and dispatches
\* happen record by record: all writes of a record, then its trace task, and
\* only then the writes of the record after it.
C17_SequentialInLogOrder ==
    /\ Len(processed) = Len(GoodLines)
    /\ \A i \in DOMAIN processed : processed[i] = Unmarshal(GoodLines[i].line).rec
    /\ Len(metrics) = Len(processed)
    /\ wire = InOrder(1)

\* Two lines were read through one descriptor and processed, the second while
\* the trace task of the first was still pending.
C17_Witness ==
    /\ mode = "tail"
    /\ Len(processed) = 2 /\ Len(handed) = 2
    /\ handed[1].fd = handed[2].fd
    /\ BagCardinality(tasks) = 2
    /\ Len(wire) = 13

\* The positions of the startup log among the log output.
FirstLogs == {i \in DOMAIN logs : logs[i].kind = "first"}

\* C18: the startup log is written at most once, and it has been written
\* exactly when a record has been processed: lines that do not decode never
\* write it, it is the first thing the first record puts out, ahead of every
\* metric write and every send failure, and nothing writes it again, whatever
\* descriptor the later lines come from.
C18_StartupLogOnce ==
    /\ Cardinality(FirstLogs) <= 1
    /\ FirstLogs # {} <=> processed # <<>>
    /\ once <=> processed # <<>>
    /\ \A i \in FirstLogs : \A j \in 1..(i - 1) : logs[j].kind = "parse"
    /\ \A i \in DOMAIN wire : wire[i] = "log" <=> i = 1

\* A line that does not decode came first, then records were processed from
\* two descriptors, and the startup log was written once.
C18_Witness ==
    /\ mode = "tail"
    /\ Len(logs) >= 2 /\ logs[1].kind = "parse" /\ logs[2].kind = "first"
    /\ Len(processed) = 2
    /\ \E i, j \in DOMAIN handed :
          /\ i < j /\ handed[i].fd # handed[j].fd
          /\ Unmarshal(handed[i].line).ok /\ Unmarshal(handed[j].line).ok
    /\ Cardinality(FirstLogs) = 1

\* The descriptors tailFile opened and has not closed.
OpenFds == {f \in DOMAIN files : ~files[f].closed}

\* C20: tailFile never has two descriptors open, and the one that is open is
\* the one the variable file holds; when it is about to open, at startup after
\* a failed attempt or inside the read loop, it has closed what it had; and in
\* the read loop the reader in use wraps the open descriptor.
C20_OneDescriptor ==
    /\ Cardinality(OpenFds) <= 1
    /\ OpenFds \subseteq {file}
    /\ pc \in {"open", "reopenS", "reopenT", "reopenE"} => OpenFds = {}
    /\ (pc \in {"read", "eofStat"} /\ OpenFds # {}) => reader.f = file

\* The read loop replaced its descriptor and has read a line through the new
\* one, the only one that is open.
C20_Witness ==
    /\ pc = "read"
    /\ Len(files) >= 2
    /\ OpenFds = {Len(files)}
    /\ reader.f = Len(files)
    /\ \E i \in DOMAIN handed : handed[i].fd = Len(files)

\* A reopen inside the read loop has failed: file is nil and the reader still
\* wraps the descriptor that was closed.
Stale == pc = "read" /\ file = 0 /\ files[reader.f].closed

\* The loop holds a descriptor just opened, a reader just made on it, no
\* partial line and lastSize 0.
Fresh ==
    /\ pc = "read"
    /\ file # 0 /\ ~files[file].closed /\ files[file].off = 0
    /\ reader = [f |-> file, buf |-> <<>>]
    /\ partialLine = <<>>
    /\ lastSize = 0

\* The loop has read, through the descriptor it holds, all that the descriptor
\* delivers.
Drained ==
    /\ pc = "eofStat"
    /\ file # 0 /\ ~files[file].closed /\ reader = [f |-> file, buf |-> <<>>]
    /\ files[file].off >= Len(Content(file))

\* C19: if from some time on the path can be opened, then whenever a reopen
\* inside the read loop has failed the loop comes to hold a fresh descriptor
\* with a fresh reader, no partial line and lastSize 0, and reads through it
\* what the file holds; it does not stay on the closed descriptor.
C19_ReopenRetried ==
    <>[](path # 0) =>
        /\ Stale ~> Fresh
        /\ Stale ~> Drained
        /\ ~<>[](pc \in {"read", "eofStat"} /\ files[reader.f].closed)

\* A reopen has failed while the path was away and the reader is left on the
\* closed descriptor; the writer has since created the file again, so the next
\* attempt can succeed.
C19_Witness ==
    /\ Stale
    /\ path # 0
    /\ events > 0

====
